---- MODULE Spec2Model ----
(***************************************************************************)
(* State-machine model of the coffee_shop_api user-management backend:     *)
(* the users table, the bearer tokens that have been issued, the clock     *)
(* and the signup requests that are between their existence lookup and     *)
(* their INSERT.  A request handler is an operator from the request and    *)
(* the current state to its response and the table it leaves; the action   *)
(* of the same name (capitalised) serves one such request.                 *)
(***************************************************************************)
EXTENDS Integers, FiniteSets, Sequences, TLC

(* ------------------------------------------------------------------ *)
(* Value domains                                                       *)
(* ------------------------------------------------------------------ *)

\* Python's None.
None == "None"

\* No row: the result of scalar_one_or_none() when the query matches nothing.
NoUser == 0

\* models/user.py UserRole
UserRole == {"user", "admin"}

\* Request inputs.
Emails == {"root@x.com", "a@x.com"}
Passwords == {"password1", "password2"}
FullNames == {"Ann"}
\* Outcomes of ''.join(random.choices(string.digits, k=6)).
Digits6 == {"000000", "111111"}

\* Largest primary key the users table hands out.
MaxId == 3
\* Largest number of distinct tokens ever issued (a login issues two).
MaxTokens == 2
\* Number of signup requests that can be in flight at once.
NumWorkers == 2

ACCESS_TOKEN_EXPIRE_MINUTES == 30
REFRESH_TOKEN_EXPIRE_DAYS == 7
SECRET_KEY == "secret"

Ids == 1..MaxId
Workers == 1..NumWorkers

VARIABLES
    users,      \* the users table: id -> row
    nextId,     \* the table's primary-key sequence
    tokens,     \* every token issued so far (held by clients)
    now,        \* the clock, in minutes
    inflight,   \* worker -> the UserCreate it is inserting, or NoRequest
    issuedFor   \* history: <<token, id>> for the user each token was issued for

vars == <<users, nextId, tokens, now, inflight, issuedFor>>

(* ------------------------------------------------------------------ *)
(* core/security.py (not in the source tree): password hasher, tokens  *)
(* ------------------------------------------------------------------ *)

\* hash(plaintext) -> digest: one-way, so the digest is not the plaintext.
get_password_hash(password) == <<"digest", password>>

\* verify(plaintext, digest) -> bool
verify_password(password, hashed) == hashed = get_password_hash(password)

\* issueAccessToken(subject, ttl): signed, type access, expiring after ttl.
create_access_token(sub, minutes) ==
    [sub |-> sub, type |-> "access", exp |-> now + minutes, key |-> SECRET_KEY]

\* issueRefreshToken(subject): signed, type refresh, default expiry 7 days.
create_refresh_token(sub) ==
    [sub |-> sub, type |-> "refresh",
     exp |-> now + REFRESH_TOKEN_EXPIRE_DAYS * 24 * 60, key |-> SECRET_KEY]

\* The falsy result of verify_token.
NoPayload == [sub |-> None, type |-> None, exp |-> 0]

\* validate(token) -> claims | failure: checks the signature and the expiry
\* (valid until exp, expired at or after it); the type is left to the caller.
verify_token(token) ==
    IF token.key = SECRET_KEY /\ now < token.exp
    THEN [sub |-> token.sub, type |-> token.type, exp |-> token.exp]
    ELSE NoPayload

\* A token signed with a key that is not SECRET_KEY.
ForgedTokens ==
    {[sub |-> "root@x.com", type |-> "access", exp |-> 1000000, key |-> "forged"]}

\* What a client can put in the Authorization header or the refresh_token
\* parameter: a token it was given, or one it made up.
PresentedTokens == tokens \cup ForgedTokens

(* ------------------------------------------------------------------ *)
(* crud/user.py                                                        *)
(* ------------------------------------------------------------------ *)

\* select(User).where(User.email == email) ... scalar_one_or_none()
get_by_email(email) ==
    IF \E i \in DOMAIN users : users[i].email = email
    THEN CHOOSE i \in DOMAIN users : users[i].email = email
    ELSE NoUser

\* select(User).where(User.id == user_id) ... scalar_one_or_none()
get_by_id(user_id) ==
    IF user_id \in DOMAIN users THEN user_id ELSE NoUser

\* A create that makes the first user of an empty table an admin.
NewUserFirstIsAdmin(user_in, verification_code) ==
    [email |-> user_in.email,
     full_name |-> user_in.full_name,
     hashed_password |-> get_password_hash(user_in.password),
     role |-> IF DOMAIN users = {} THEN "admin" ELSE "user",
     is_verified |-> FALSE,
     verification_code |-> verification_code]

\* The row CRUDUser.create builds; role takes the column default.
NewUser(user_in, verification_code) ==
    [email |-> user_in.email,
     full_name |-> user_in.full_name,
     hashed_password |-> get_password_hash(user_in.password),
     role |-> "user",
     is_verified |-> FALSE,
     verification_code |-> verification_code]

\* A verify that also succeeds for a user who is verified already.
VerifyOkWhenVerified(email, code) ==
    LET user == get_by_email(email) IN
    /\ user # NoUser
    /\ users[user].is_verified \/ users[user].verification_code = code

\* CRUDUser.verify: does (email, code) verify?
verify_ok(email, code) ==
    LET user == get_by_email(email) IN
    ~(user = NoUser \/ users[user].verification_code # code)

\* A verify that marks the user verified and leaves the code in place.
VerifiedKeepsCode(row) ==
    [row EXCEPT !.is_verified = TRUE]

\* CRUDUser.verify: the row after a successful verification.
Verified(row) ==
    [row EXCEPT !.is_verified = TRUE, !.verification_code = None]

\* authenticate without the verify_password test.
AuthenticateByEmailOnly(email, password) ==
    get_by_email(email)

\* An authenticate that turns away users who have not verified their email.
AuthenticateVerifiedOnly(email, password) ==
    LET user == get_by_email(email) IN
    IF user = NoUser \/ ~verify_password(password, users[user].hashed_password)
       \/ ~users[user].is_verified
    THEN NoUser
    ELSE user

\* CRUDUser.authenticate: the user's id, or NoUser.
authenticate(email, password) ==
    LET user == get_by_email(email) IN
    IF user = NoUser \/ ~verify_password(password, users[user].hashed_password)
    THEN NoUser
    ELSE user

(* ------------------------------------------------------------------ *)
(* api/deps.py                                                         *)
(* ------------------------------------------------------------------ *)

\* A dependency either raises HTTPException(status, detail) or returns a user.
Raise(status, detail) == [status |-> status, detail |-> detail, user |-> NoUser]
Return(user) == [status |-> 200, detail |-> "", user |-> user]

\* get_current_user without the test for a missing user.
CurrentUserWithoutLookupTest(token) ==
    LET payload == verify_token(token) IN
    IF payload = NoPayload \/ payload.sub = None
    THEN Raise(401, "Invalid authentication credentials")
    ELSE Return(get_by_email(payload.sub))

get_current_user(token) ==
    LET payload == verify_token(token) IN
    IF payload = NoPayload
    THEN Raise(401, "Invalid authentication credentials")
    ELSE IF payload.sub = None
    THEN Raise(401, "Invalid authentication credentials")
    ELSE LET user == get_by_email(payload.sub) IN
         IF user = NoUser
         THEN Raise(401, "User not found")
         ELSE Return(user)

\* An admin dependency that authenticates the caller and forgets the role.
AnyAuthenticatedUser(token) ==
    get_current_user(token)

get_current_active_admin(token) ==
    LET current_user == get_current_user(token) IN
    IF current_user.status # 200
    THEN current_user
    ELSE IF users[current_user.user].role # "admin"
    THEN Raise(403, "Not enough permissions")
    ELSE current_user

\* An update gate that decides the permission before it looks the target up.
UpdaterPermissionBeforeLookup(user_id, token) ==
    LET current_user == get_current_user(token) IN
    IF current_user.status # 200
    THEN current_user
    ELSE IF user_id = current_user.user
    THEN current_user
    ELSE IF users[current_user.user].role # "admin"
    THEN Raise(403, "Only admin can update other users")
    ELSE IF get_by_id(user_id) = NoUser
    THEN Raise(404, "User not found")
    ELSE current_user

\* An update gate that lets every authenticated caller at every existing target.
UpdaterWithoutAdminCheck(user_id, token) ==
    LET current_user == get_current_user(token) IN
    IF current_user.status # 200
    THEN current_user
    ELSE IF get_by_id(user_id) = NoUser
    THEN Raise(404, "User not found")
    ELSE current_user

get_user_updater_permission(user_id, token) ==
    LET current_user == get_current_user(token) IN
    IF current_user.status # 200
    THEN current_user
    ELSE LET target_user == get_by_id(user_id) IN
         IF target_user = NoUser
         THEN Raise(404, "User not found")
         ELSE IF target_user = current_user.user
         THEN current_user
         ELSE IF users[current_user.user].role # "admin"
         THEN Raise(403, "Only admin can update other users")
         ELSE current_user

(* ------------------------------------------------------------------ *)
(* schemas/user.py                                                     *)
(* ------------------------------------------------------------------ *)

\* UserCreate bodies that pass validation.
UserCreates ==
    [email : Emails, full_name : FullNames \cup {None}, password : Passwords]

\* No request: the idle value of a worker.
NoRequest == [email |-> None, full_name |-> None, password |-> None]

\* A UserUpdate schema that also has an is_verified field.
UserUpdateDictsWithVerified ==
    { d \in UNION { [F -> FullNames \cup UserRole \cup {None}] :
                      F \in SUBSET {"full_name", "role"} } :
        /\ "full_name" \in DOMAIN d => d["full_name"] \in FullNames \cup {None}
        /\ "role" \in DOMAIN d => d["role"] \in UserRole \cup {None} }
    \cup {[F \in {"is_verified"} |-> FALSE]}

\* UserUpdate.dict(exclude_unset=True): the fields the body sets, each with
\* its value; both fields are Optional, so an explicit null is a value.
UserUpdateDicts ==
    { d \in UNION { [F -> FullNames \cup UserRole \cup {None}] :
                      F \in SUBSET {"full_name", "role"} } :
        /\ "full_name" \in DOMAIN d => d["full_name"] \in FullNames \cup {None}
        /\ "role" \in DOMAIN d => d["role"] \in UserRole \cup {None} }

(* ------------------------------------------------------------------ *)
(* The outcome of a request                                            *)
(* ------------------------------------------------------------------ *)

\* The response (status, detail) and the users table after the request.
Result(status, detail, table) ==
    [status |-> status, detail |-> detail, users |-> table]

\* raise HTTPException(status, detail): nothing was written.
Rejected(status, detail) == Result(status, detail, users)

\* An exception that is not an HTTPException: get_db rolls the session back
\* and the server answers 500.
ServerError(exception) == Result(500, exception, users)

\* The tokens a response carries, for /auth/login and /auth/refresh.
Issued(status, detail, issued) ==
    [status |-> status, detail |-> detail, issued |-> issued]

(* ------------------------------------------------------------------ *)
(* api/v1/endpoints/auth.py                                            *)
(* ------------------------------------------------------------------ *)

\* CRUDUser.create after its lookup, and the commit of signup: the code is
\* drawn, the row is INSERTed (flush) and committed.  The unique index on
\* users.email rejects the INSERT when a row with the email has been
\* committed since the lookup; create does not catch that error.
create_insert(user_in, verification_code) ==
    IF get_by_email(user_in.email) # NoUser
    THEN ServerError("IntegrityError: users.email is unique")
    ELSE Result(201, "User registered successfully",
                users @@ (nextId :> NewUser(user_in, verification_code)))

\* signup as an upsert: a registered email has its row written over.
SignupOverwrites(user_in, verification_code) ==
    LET existing_user == get_by_email(user_in.email) IN
    IF existing_user # NoUser
    THEN Result(201, "User registered successfully",
                [users EXCEPT ![existing_user] = NewUser(user_in, verification_code)])
    ELSE create_insert(user_in, verification_code)

\* POST /auth/signup, served without another request in between.
signup(user_in, verification_code) ==
    LET existing_user == get_by_email(user_in.email) IN
    IF existing_user # NoUser
    THEN ServerError("ValueError: Email already registered")
    ELSE create_insert(user_in, verification_code)

\* A login that tells an unknown email from a wrong password.
LoginNamesMissingUser(email, password) ==
    LET user == authenticate(email, password) IN
    IF user = NoUser
    THEN IF get_by_email(email) = NoUser
         THEN Issued(404, "User not found", {})
         ELSE Issued(401, "Incorrect email or password", {})
    ELSE Issued(200, "",
                {create_access_token(users[user].email, ACCESS_TOKEN_EXPIRE_MINUTES),
                 create_refresh_token(users[user].email)})

\* POST /auth/login
login(email, password) ==
    LET user == authenticate(email, password) IN
    IF user = NoUser
    THEN Issued(401, "Incorrect email or password", {})
    ELSE Issued(200, "",
                {create_access_token(users[user].email, ACCESS_TOKEN_EXPIRE_MINUTES),
                 create_refresh_token(users[user].email)})

\* POST /auth/refresh
refresh_token(token) ==
    LET payload == verify_token(token) IN
    IF payload = NoPayload \/ payload.type # "refresh"
    THEN Issued(401, "Invalid refresh token", {})
    ELSE Issued(200, "",
                {create_access_token(payload.sub, ACCESS_TOKEN_EXPIRE_MINUTES)})

\* A verify that withdraws the stored code when a wrong one is presented.
VerifyUserBurnsCode(email, code) ==
    IF verify_ok(email, code)
    THEN Result(200, "User verified successfully",
                [users EXCEPT ![get_by_email(email)] = Verified(@)])
    ELSE IF get_by_email(email) = NoUser
         THEN Rejected(400, "Invalid verification code")
         ELSE Result(400, "Invalid verification code",
                     [users EXCEPT ![get_by_email(email)].verification_code = None])

\* POST /auth/verify
verify_user(email, code) ==
    IF verify_ok(email, code)
    THEN Result(200, "User verified successfully",
                [users EXCEPT ![get_by_email(email)] = Verified(@)])
    ELSE Rejected(400, "Invalid verification code")

(* ------------------------------------------------------------------ *)
(* api/v1/endpoints/users.py                                           *)
(* ------------------------------------------------------------------ *)

\* GET /me
read_users_me(token) ==
    LET current_user == get_current_user(token) IN
    Rejected(current_user.status, current_user.detail)

\* GET /users
read_users(token) ==
    LET current_user == get_current_active_admin(token) IN
    Rejected(current_user.status, current_user.detail)

\* GET /users/{user_id}
read_user(token, user_id) ==
    LET current_user == get_current_active_admin(token) IN
    IF current_user.status # 200
    THEN Rejected(current_user.status, current_user.detail)
    ELSE IF get_by_id(user_id) = NoUser
    THEN Rejected(404, "User not found")
    ELSE Result(200, "", users)

\* A role check that reads the value (update_data.get("role")) and so lets
\* an explicit null through.
OwnRoleChangeByValue(update_data) ==
    "role" \in DOMAIN update_data /\ update_data["role"] # None

\* update_user: the test that makes a self-update fail.
OwnRoleChange(update_data) == "role" \in DOMAIN update_data

\* update_user, the branch target_user.id == updater.id, after the role check.
SelfUpdate(row, update_data) ==
    IF "full_name" \in DOMAIN update_data
    THEN [row EXCEPT !.full_name = update_data["full_name"]]
    ELSE row

\* An admin branch that applies role and drops full_name.
AdminUpdateRoleOnly(row, update_data) ==
    IF "role" \in DOMAIN update_data
    THEN [row EXCEPT !.role = update_data["role"]]
    ELSE row

\* update_user, the other branch: setattr for every item of update_data.
AdminUpdate(row, update_data) ==
    [field \in DOMAIN row |->
        IF field \in DOMAIN update_data THEN update_data[field] ELSE row[field]]

\* A role column declared nullable accepts every row.
RowAcceptedNullable(row) == TRUE

\* The users table accepts a row: role is an Enum column with nullable=False.
RowAccepted(row) == row.role \in UserRole

\* PATCH /users/{user_id}
update_user(token, user_id, update_data) ==
    LET updater == get_user_updater_permission(user_id, token) IN
    IF updater.status # 200
    THEN Rejected(updater.status, updater.detail)
    ELSE LET target_user == get_by_id(user_id) IN
         IF target_user = NoUser
         THEN Rejected(404, "User not found")
         ELSE IF target_user = updater.user
         THEN IF OwnRoleChange(update_data)
              THEN Rejected(403, "Cannot change own role")
              ELSE Result(200, "",
                          [users EXCEPT ![target_user] = SelfUpdate(@, update_data)])
         ELSE LET row == AdminUpdate(users[target_user], update_data) IN
              IF ~RowAccepted(row)
              THEN ServerError("IntegrityError: users.role is not null")
              ELSE Result(200, "", [users EXCEPT ![target_user] = row])

\* delete_user with Depends(get_current_user) in place of the admin dependency.
DeleteWithoutAdminCheck(token, user_id) ==
    LET current_user == get_current_user(token) IN
    IF current_user.status # 200
    THEN Rejected(current_user.status, current_user.detail)
    ELSE LET user == get_by_id(user_id) IN
         IF user = NoUser
         THEN Rejected(404, "User not found")
         ELSE Result(200, "User deleted successfully",
                     [i \in DOMAIN users \ {user} |-> users[i]])

\* DELETE /users/{user_id}
delete_user(token, user_id) ==
    LET current_user == get_current_active_admin(token) IN
    IF current_user.status # 200
    THEN Rejected(current_user.status, current_user.detail)
    ELSE LET user == get_by_id(user_id) IN
         IF user = NoUser
         THEN Rejected(404, "User not found")
         ELSE Result(200, "User deleted successfully",
                     [i \in DOMAIN users \ {user} |-> users[i]])

(* ------------------------------------------------------------------ *)
(* Initial state                                                       *)
(* ------------------------------------------------------------------ *)

\* An administrator put into the table by the operator: no request creates one.
SeedAdmin ==
    [email |-> "root@x.com",
     full_name |-> None,
     hashed_password |-> get_password_hash("password1"),
     role |-> "admin",
     is_verified |-> TRUE,
     verification_code |-> None]

\* create_tables() on an empty database, or on one seeded with an admin.
Init ==
    /\ \/ users = <<>> /\ nextId = 1
       \/ users = (1 :> SeedAdmin) /\ nextId = 2
    /\ tokens = {}
    /\ now = 0
    /\ inflight = [w \in Workers |-> NoRequest]
    /\ issuedFor = {}

(* ------------------------------------------------------------------ *)
(* Actions: one request served                                         *)
(* ------------------------------------------------------------------ *)

\* Ids the requests in flight will still take from the sequence.
Reserved == Cardinality({w \in Workers : inflight[w] # NoRequest})

\* The request leaves the table as its outcome says; an INSERT (201) has
\* taken the next value of the primary-key sequence.
Store(outcome) ==
    /\ users' = outcome.users
    /\ nextId' = IF outcome.status = 201 THEN nextId + 1 ELSE nextId

\* The client keeps the tokens of the response.
Keep(issued) ==
    /\ Cardinality(tokens \cup issued) <= MaxTokens
    /\ tokens' = tokens \cup issued

Signup(user_in, verification_code) ==
    /\ signup(user_in, verification_code).status = 201 => nextId + Reserved <= MaxId
    /\ Store(signup(user_in, verification_code))
    /\ UNCHANGED <<tokens, now, inflight, issuedFor>>

\* A signup up to the existence lookup of CRUDUser.create: the request fails
\* on a registered email, or goes on to its INSERT.
SignupLookup(w, user_in) ==
    /\ inflight[w] = NoRequest
    /\ get_by_email(user_in.email) = NoUser => nextId + Reserved <= MaxId
    /\ inflight' = IF get_by_email(user_in.email) # NoUser
                   THEN inflight
                   ELSE [inflight EXCEPT ![w] = user_in]
    /\ UNCHANGED <<users, nextId, tokens, now, issuedFor>>

\* The signup of worker w does its INSERT and commit.
SignupInsert(w, verification_code) ==
    /\ inflight[w] # NoRequest
    /\ Store(create_insert(inflight[w], verification_code))
    /\ inflight' = [inflight EXCEPT ![w] = NoRequest]
    /\ UNCHANGED <<tokens, now, issuedFor>>

\* The tokens of a login are issued for the user who authenticated.
Login(email, password) ==
    /\ Keep(login(email, password).issued)
    /\ issuedFor' = issuedFor \cup
          {<<t, authenticate(email, password)>> : t \in login(email, password).issued}
    /\ UNCHANGED <<users, nextId, now, inflight>>

\* The token of a refresh is issued for whom the refresh token was issued for.
RefreshToken(token) ==
    /\ Keep(refresh_token(token).issued)
    /\ issuedFor' = issuedFor \cup
          {<<t, g[2]>> : t \in refresh_token(token).issued,
                        g \in {h \in issuedFor : h[1] = token}}
    /\ UNCHANGED <<users, nextId, now, inflight>>

VerifyUser(email, code) ==
    /\ Store(verify_user(email, code))
    /\ UNCHANGED <<tokens, now, inflight, issuedFor>>

ReadUsersMe(token) ==
    /\ Store(read_users_me(token))
    /\ UNCHANGED <<tokens, now, inflight, issuedFor>>

ReadUsers(token) ==
    /\ Store(read_users(token))
    /\ UNCHANGED <<tokens, now, inflight, issuedFor>>

ReadUser(token, user_id) ==
    /\ Store(read_user(token, user_id))
    /\ UNCHANGED <<tokens, now, inflight, issuedFor>>

UpdateUser(token, user_id, update_data) ==
    /\ Store(update_user(token, user_id, update_data))
    /\ UNCHANGED <<tokens, now, inflight, issuedFor>>

DeleteUser(token, user_id) ==
    /\ Store(delete_user(token, user_id))
    /\ UNCHANGED <<tokens, now, inflight, issuedFor>>

\* Time passes, up to the next instant at which an issued token expires.
Tick ==
    /\ \E t \in tokens : /\ t.exp > now
                         /\ now' = t.exp
    /\ UNCHANGED <<users, nextId, tokens, inflight, issuedFor>>

(* ------------------------------------------------------------------ *)
(* Specifications                                                      *)
(* ------------------------------------------------------------------ *)

\* Every request other than a signup, and the clock.
Others ==
    \/ \E email \in Emails, password \in Passwords : Login(email, password)
    \/ \E token \in PresentedTokens : RefreshToken(token)
    \/ \E email \in Emails, code \in Digits6 : VerifyUser(email, code)
    \/ \E token \in PresentedTokens : ReadUsersMe(token)
    \/ \E token \in PresentedTokens : ReadUsers(token)
    \/ \E token \in PresentedTokens, user_id \in Ids : ReadUser(token, user_id)
    \/ \E token \in PresentedTokens, user_id \in Ids, update_data \in UserUpdateDicts :
           UpdateUser(token, user_id, update_data)
    \/ \E token \in PresentedTokens, user_id \in Ids : DeleteUser(token, user_id)
    \/ Tick

\* Requests served one at a time.
Next ==
    \/ \E user_in \in UserCreates, code \in Digits6 : Signup(user_in, code)
    \/ Others

Spec == Init /\ [][Next]_vars

\* Signups overlap: each is a lookup and, later, an INSERT.
NextRace ==
    \/ \E w \in Workers, user_in \in UserCreates : SignupLookup(w, user_in)
    \/ \E w \in Workers, code \in Digits6 : SignupInsert(w, code)
    \/ Others

SpecRace == Init /\ [][NextRace]_vars

(* ------------------------------------------------------------------ *)
(* Properties                                                          *)
(* ------------------------------------------------------------------ *)

\* The bearer tokens that pass verify_token now.
ValidTokens == {t \in PresentedTokens : verify_token(t) # NoPayload}

\* The tokens that get_current_user resolves to a user now.
Authenticated == {t \in PresentedTokens : get_current_user(t).status = 200}

\* The user a token of Authenticated is resolved to.
Caller(token) == get_current_user(token).user

\* C1: a validly signed, unexpired refresh token is rejected (401) by every
\* bearer-protected operation, and refreshAccessToken rejects every token
\* whose type is not refresh.
C1_TokenTypesNeverMixed ==
    /\ \A t \in ValidTokens :
          t.type = "refresh" =>
             /\ read_users_me(t).status = 401
             /\ read_users(t).status = 401
             /\ \A user_id \in Ids :
                   /\ read_user(t, user_id).status = 401
                   /\ delete_user(t, user_id).status = 401
                   /\ \A update_data \in UserUpdateDicts :
                         update_user(t, user_id, update_data).status = 401
    /\ \A t \in PresentedTokens :
          t.type # "refresh" => refresh_token(t).status = 401

\* C2: every step in which the role of a stored user changes is an updateUser
\* of that user by a caller whose role is admin and whose id is not the
\* target's.
C2_RoleChangedOnlyByAdminOnOther ==
    [][\A i \in DOMAIN users \cap DOMAIN users' :
          users'[i].role # users[i].role =>
             \E t \in Authenticated, update_data \in UserUpdateDicts :
                /\ UpdateUser(t, i, update_data)
                /\ users[Caller(t)].role = "admin"
                /\ Caller(t) # i]_vars

\* C2 witness: a user who signed up (role user) has been made admin.
C2_Witness ==
    \E i \in DOMAIN users :
       /\ users[i].role = "admin"
       /\ users[i].email # SeedAdmin.email

\* At most one row per email.
UniqueEmails ==
    \A i, j \in DOMAIN users : users[i].email = users[j].email => i = j

\* C3: there is at most one user per email, and a signup that passed its
\* lookup and finds the email taken at its INSERT fails as DuplicateEmail
\* (create's "Email already registered") without creating a record.
C3_RaceLoserFailsAsDuplicateEmail ==
    /\ UniqueEmails
    /\ \A w \in Workers :
          (inflight[w] # NoRequest /\ get_by_email(inflight[w].email) # NoUser) =>
             \A code \in Digits6 :
                create_insert(inflight[w], code) =
                   ServerError("ValueError: Email already registered")

\* C4: a stored user has a verification code only while is_verified is false.
C4_CodeOnlyWhileUnverified ==
    \A i \in DOMAIN users :
       users[i].verification_code # None => users[i].is_verified = FALSE

\* C4 witness: a user who signed up and verified (no code left) beside one
\* who signed up and still has the code.
C4_Witness ==
    \E i, j \in DOMAIN users :
       /\ users[i].role = "user" /\ users[i].is_verified
       /\ users[i].verification_code = None
       /\ ~users[j].is_verified /\ users[j].verification_code \in Digits6

\* C5: listUsers, getUser and deleteUser get past their permission check iff
\* the caller's role is admin; a caller whose role is user gets 403 "Not
\* enough permissions" for every target id, existing or not, and the table
\* is left as it was.
C5_AdminOnlyOperations ==
    \A t \in Authenticated :
       IF users[Caller(t)].role = "admin"
       THEN /\ read_users(t).status = 200
            /\ \A user_id \in Ids :
                  /\ read_user(t, user_id).status =
                        (IF user_id \in DOMAIN users THEN 200 ELSE 404)
                  /\ delete_user(t, user_id).status =
                        (IF user_id \in DOMAIN users THEN 200 ELSE 404)
       ELSE /\ read_users(t) = Rejected(403, "Not enough permissions")
            /\ \A user_id \in Ids :
                  /\ read_user(t, user_id) = Rejected(403, "Not enough permissions")
                  /\ delete_user(t, user_id) = Rejected(403, "Not enough permissions")

\* C5 witness: a caller whose role is user holds a valid token while another
\* user exists and some id does not.
C5_Witness ==
    \E t \in Authenticated :
       /\ users[Caller(t)].role = "user"
       /\ \E user_id \in DOMAIN users : user_id # Caller(t)
       /\ \E user_id \in Ids : user_id \notin DOMAIN users

\* C6: a caller (of either role) who updates their own record with role in
\* the change set gets 403 "Cannot change own role", whatever the value, and
\* the table is left as it was; with only full_name in the change set the
\* update succeeds and sets full_name.
C6_OwnRoleChangeRejectedWhole ==
    \A t \in Authenticated, update_data \in UserUpdateDicts :
       LET outcome == update_user(t, Caller(t), update_data) IN
       /\ "role" \in DOMAIN update_data =>
             outcome = Rejected(403, "Cannot change own role")
       /\ DOMAIN update_data = {"full_name"} =>
             outcome = Result(200, "",
                          [users EXCEPT ![Caller(t)].full_name =
                                           update_data["full_name"]])

\* C6 witness: a caller whose role is user holds a valid token and has a
\* full_name that an update applied in part would have replaced.
C6_Witness ==
    \E t \in Authenticated :
       /\ users[Caller(t)].role = "user"
       /\ users[Caller(t)].full_name \in FullNames

\* C7: for a user who is not verified, verifyEmail with the stored code
\* succeeds; for a user who is verified, verifyEmail fails whatever the code
\* (the code that succeeded included) and changes nothing.
C7_VerifySucceedsOncePerUser ==
    \A i \in DOMAIN users :
       IF users[i].is_verified
       THEN \A code \in Digits6 :
               verify_user(users[i].email, code) =
                  Rejected(400, "Invalid verification code")
       ELSE LET outcome == verify_user(users[i].email, users[i].verification_code)
            IN /\ outcome.status = 200
               /\ outcome.users[i].is_verified

\* C7 witness: a user who signed up has been verified.
C7_Witness ==
    \E i \in DOMAIN users :
       /\ users[i].is_verified
       /\ users[i].hashed_password # SeedAdmin.hashed_password

\* C8: for an authenticated caller, the update gate is a function of (target
\* exists, target = caller, caller's role): a missing target is 404 also for
\* a caller who is not admin; else the caller passes as self; else an admin
\* passes as admin; else 403 and nothing changes.
C8_UpdateGateDecision ==
    \A t \in Authenticated, user_id \in Ids, update_data \in UserUpdateDicts :
       LET gate == get_user_updater_permission(user_id, t)
           outcome == update_user(t, user_id, update_data)
       IN IF user_id \notin DOMAIN users
          THEN /\ gate = Raise(404, "User not found")
               /\ outcome = Rejected(404, "User not found")
          ELSE IF user_id = Caller(t)
          THEN /\ gate = Return(Caller(t))
               /\ outcome.status \in {200, 403}
               /\ outcome.status = 403 => outcome.detail = "Cannot change own role"
          ELSE IF users[Caller(t)].role = "admin"
          THEN /\ gate = Return(Caller(t))
               /\ outcome.status \in {200, 500}
          ELSE /\ gate = Raise(403, "Only admin can update other users")
               /\ outcome = Rejected(403, "Only admin can update other users")

\* C8 witness: a caller who is not admin holds a valid token while another
\* user exists and some id is missing.
C8_Witness ==
    \E t \in Authenticated :
       /\ users[Caller(t)].role # "admin"
       /\ \E user_id \in Ids : user_id \notin DOMAIN users
       /\ \E user_id \in DOMAIN users :
             user_id # Caller(t) /\ users[user_id].role = "user"

\* C9: an admin's update of another user with role and/or full_name in the
\* change set (role one of user, admin) succeeds; each field in the change
\* set takes the supplied value, a field not in it and every other attribute
\* of the target keep theirs, and so does every other user.  With a null
\* role the update fails and nothing changes.
C9_AdminUpdateVerbatimAndFramed ==
    \A t \in Authenticated :
       users[Caller(t)].role = "admin" =>
          \A user_id \in DOMAIN users \ {Caller(t)}, update_data \in UserUpdateDicts :
             LET outcome == update_user(t, user_id, update_data)
                 old == users[user_id]
             IN IF "role" \in DOMAIN update_data /\ update_data["role"] \notin UserRole
                THEN outcome.users = users
                ELSE /\ outcome.status = 200
                     /\ DOMAIN outcome.users = DOMAIN users
                     /\ \A j \in DOMAIN users \ {user_id} : outcome.users[j] = users[j]
                     /\ outcome.users[user_id] =
                           [email |-> old.email,
                            hashed_password |-> old.hashed_password,
                            is_verified |-> old.is_verified,
                            verification_code |-> old.verification_code,
                            full_name |-> IF "full_name" \in DOMAIN update_data
                                          THEN update_data["full_name"]
                                          ELSE old.full_name,
                            role |-> IF "role" \in DOMAIN update_data
                                     THEN update_data["role"]
                                     ELSE old.role]

\* C9 witness: an admin holds a valid token and another user, still not
\* verified, has been given both the role admin and a full_name.
C9_Witness ==
    \E t \in Authenticated, i \in DOMAIN users :
       /\ users[Caller(t)].role = "admin"
       /\ i # Caller(t)
       /\ users[i].role = "admin" /\ users[i].full_name \in FullNames
       /\ ~users[i].is_verified /\ users[i].verification_code \in Digits6

\* No updateUser request, whoever sends it, has an outcome that differs from
\* the table in any user's is_verified.
UpdateKeepsVerified ==
    \A t \in PresentedTokens, user_id \in Ids, update_data \in UserUpdateDicts :
       LET outcome == update_user(t, user_id, update_data) IN
       /\ DOMAIN outcome.users = DOMAIN users
       /\ \A i \in DOMAIN users :
             outcome.users[i].is_verified = users[i].is_verified

\* C10: is_verified of a stored user changes only from false to true and only
\* in a successful verifyEmail for the user's email, so it never returns to
\* false while the user exists; and no updateUser changes is_verified.
C10_VerifiedSetOnceByVerify ==
    /\ []UpdateKeepsVerified
    /\ [][\A i \in DOMAIN users \cap DOMAIN users' :
             users'[i].is_verified # users[i].is_verified =>
                /\ ~users[i].is_verified
                /\ users'[i].is_verified
                /\ \E code \in Digits6 :
                      /\ verify_user(users[i].email, code).status = 200
                      /\ VerifyUser(users[i].email, code)]_vars

\* C10 witness: a verified user who signed up, beside an admin who holds a
\* valid token and so can update that user.
C10_Witness ==
    \E t \in Authenticated, i \in DOMAIN users :
       /\ users[Caller(t)].role = "admin"
       /\ i # Caller(t)
       /\ users[i].is_verified

C12_DuplicateEmailRejectedUnchanged ==
    \A user_in \in UserCreates, verification_code \in Digits6 :
       get_by_email(user_in.email) # NoUser =>
          /\ signup(user_in, verification_code) =
                ServerError("ValueError: Email already registered")
          /\ signup(user_in, verification_code).users = users

\* C12 witness: a registered row that a second signup would change: it is
\* verified, and its password is not the one every request could bring.
C12_Witness ==
    \E i \in DOMAIN users :
       /\ users[i].email # SeedAdmin.email
       /\ users[i].is_verified
       /\ users[i].hashed_password = get_password_hash("password2")
       /\ nextId <= MaxId

\* C13: when a signup adds a row, authenticate with the signup's email and
\* password returns the new row's id, and with any other password returns no
\* user; and, for as long as a row stays in the table, every step (verify
\* and update steps among them) leaves what authenticate returns for its
\* email unchanged for every password.
C13_AuthenticateAfterCreate ==
    [][users' # users =>
          \A i \in DOMAIN users' :
             IF i \in DOMAIN users
             THEN \A password \in Passwords :
                     authenticate(users[i].email, password)' =
                        authenticate(users[i].email, password)
             ELSE \E user_in \in UserCreates :
                     /\ users'[i].email = user_in.email
                     /\ \A password \in Passwords :
                           authenticate(user_in.email, password)' =
                              (IF password = user_in.password THEN i ELSE NoUser)
                     /\ \E verification_code \in Digits6 :
                           Signup(user_in, verification_code)]_vars

\* C13 witness: a row created by signup has since been verified and promoted
\* by an admin, and authenticate still returns its id for its password.
C13_Witness ==
    \E i \in DOMAIN users :
       /\ users[i].email # SeedAdmin.email
       /\ users[i].is_verified
       /\ users[i].role = "admin"
       /\ authenticate(users[i].email, "password2") = i
       /\ authenticate(users[i].email, "password1") = NoUser

\* C14: verify fails when no user has the email or the code is not the stored
\* one, and a failed verify leaves the table as it was; so, in the state
\* after it, an unverified user still has the same code, and verify with
\* that code succeeds, sets is_verified and clears verification_code while
\* leaving every other row and field alone.
C14_FailedVerifyChangesNothing ==
    \A email \in Emails :
       LET user == get_by_email(email) IN
       /\ \A code \in Digits6 :
             (user = NoUser \/ users[user].verification_code # code) =>
                /\ verify_user(email, code).status = 400
                /\ verify_user(email, code).users = users
       /\ (user # NoUser /\ ~users[user].is_verified) =>
             LET right == verify_user(email, users[user].verification_code) IN
             /\ right.status = 200
             /\ right.users =
                   [users EXCEPT ![user].is_verified = TRUE,
                                 ![user].verification_code = None]

\* C14 witness: one email has an unverified user, for whom a wrong code
\* exists, and another email has no user.
C14_Witness ==
    /\ \E i \in DOMAIN users :
          /\ ~users[i].is_verified
          /\ \E code \in Digits6 : code # users[i].verification_code
    /\ \E email \in Emails : get_by_email(email) = NoUser

\* C15: in every reachable state each stored user's role is user or admin; a
\* row added by signup has role user; and no update request, an admin's
\* update of another user with role or full_name explicitly null included,
\* leaves a row whose role is neither.
C15_RoleAlwaysUserOrAdmin ==
    /\ \A i \in DOMAIN users : users[i].role \in UserRole
    /\ \A user_in \in UserCreates, verification_code \in Digits6 :
          LET outcome == signup(user_in, verification_code) IN
          outcome.status = 201 => outcome.users[nextId].role = "user"
    /\ \A t \in Authenticated, user_id \in Ids, update_data \in UserUpdateDicts :
          LET outcome == update_user(t, user_id, update_data) IN
          \A i \in DOMAIN outcome.users : outcome.users[i].role \in UserRole

\* C15 witness: an admin holds a valid token while another user, whose
\* full_name is null, has been made admin by an update.
C15_Witness ==
    \E t \in Authenticated :
       /\ users[Caller(t)].role = "admin"
       /\ \E i \in DOMAIN users :
             /\ i # Caller(t)
             /\ users[i].full_name = None
             /\ users[i].role = "admin"

\* C16: a login for an email without a user and a login for a registered
\* email with a wrong password get the same response, with no token issued;
\* a verify for an email without a user and a verify with a wrong code get
\* the same response; and neither failure changes the table.
C16_FailuresUndifferentiated ==
    \A unknown \in Emails, known \in Emails :
       (get_by_email(unknown) = NoUser /\ get_by_email(known) # NoUser) =>
          /\ \A password \in Passwords, wrong \in Passwords :
                authenticate(known, wrong) = NoUser =>
                   /\ login(unknown, password) = login(known, wrong)
                   /\ login(known, wrong).status = 401
                   /\ login(known, wrong).issued = {}
          /\ \A code \in Digits6, wrong \in Digits6 :
                users[get_by_email(known)].verification_code # wrong =>
                   /\ verify_user(unknown, code) = verify_user(known, wrong)
                   /\ verify_user(known, wrong).status = 400
                   /\ verify_user(known, wrong).users = users

\* C16 witness: one email has no user; the other has an unverified user
\* whose password and code are not the only ones a request can bring.
C16_Witness ==
    \E unknown \in Emails, i \in DOMAIN users :
       /\ get_by_email(unknown) = NoUser
       /\ users[i].hashed_password = get_password_hash("password2")
       /\ users[i].verification_code = "111111"

\* C17: a token issued by login for the user with id i, or minted by refresh
\* from such a login's refresh token, is never resolved by get_current_user
\* to a user whose id is not i, also after user i was deleted and the email
\* was registered again.
C17_TokenResolvesToItsUser ==
    \A grant \in issuedFor :
       LET current_user == get_current_user(grant[1]) IN
       current_user.status = 200 => current_user.user = grant[2]

\* C18: while no user has a token's subject email (after that user was
\* deleted), every bearer-protected request made with the token is answered
\* 401 and leaves the table as it was, although the token is unexpired, and
\* although refresh still mints an access token for that subject, which is
\* refused in the same way.
C18_DeletedUsersTokensRejected ==
    \A t \in ValidTokens :
       get_by_email(t.sub) = NoUser =>
          /\ read_users_me(t) = Rejected(401, "User not found")
          /\ read_users(t) = Rejected(401, "User not found")
          /\ \A user_id \in Ids :
                /\ read_user(t, user_id) = Rejected(401, "User not found")
                /\ delete_user(t, user_id) = Rejected(401, "User not found")
                /\ \A update_data \in UserUpdateDicts :
                      update_user(t, user_id, update_data) =
                         Rejected(401, "User not found")
          /\ \A minted \in refresh_token(t).issued :
                /\ get_by_email(minted.sub) = NoUser
                /\ get_current_user(minted) = Raise(401, "User not found")

\* C18 witness: a user who logged in has been deleted, the refresh token of
\* that login is unexpired and still mints an access token, and another user
\* is in the table.
C18_Witness ==
    \E t \in ValidTokens :
       /\ get_by_email(t.sub) = NoUser
       /\ \E grant \in issuedFor : grant[1] = t
       /\ refresh_token(t).status = 200
       /\ DOMAIN users # {}

\* No stored user has role admin.
NoAdmin == \A i \in DOMAIN users : users[i].role # "admin"

\* C19: from a table without an admin no request leads to a table with one:
\* every step taken in a state where no user has role admin ends in a state
\* where no user has role admin, so a run that starts from such a table (the
\* empty one included) never has an admin.
C19_NoAdminStaysNoAdmin ==
    [][NoAdmin => NoAdmin']_vars

\* C19 witness: no user is admin, two users are registered, and one of them
\* holds a valid token for the bearer-protected requests.
C19_Witness ==
    /\ NoAdmin
    /\ Cardinality(DOMAIN users) >= 2
    /\ \E t \in Authenticated : users[Caller(t)].is_verified

\* A table without the is_verified and verification_code fields.
OtherFields(table) ==
    [i \in DOMAIN table |->
        [email |-> table[i].email,
         full_name |-> table[i].full_name,
         hashed_password |-> table[i].hashed_password,
         role |-> table[i].role]]

\* What a request's outcome shows of the other fields.
Visible(outcome) == [outcome EXCEPT !.users = OtherFields(@)]

====
